---- MODULE Spec2Model ----
(***************************************************************************)
(* Model of PluginLedgerConnectorPolkadot (cactus-plugin-ledger-connector- *)
(* polkadot): the transact / deployContract submission paths, the bridge   *)
(* from the node's status notifications to the single outcome of a call,   *)
(* the offline-signing helpers (rawTransaction, signTransaction) and       *)
(* obtainTransactionInformation.                                           *)
(***************************************************************************)
EXTENDS Integers, Sequences, FiniteSets, TLC

\* ------------------------------------------------------------------ bounds
MaxCalls == 1      \* call slots (each slot is one transact/deployContract call)
MaxNotifs == 3     \* notifications the node delivers in one run, all calls together
MaxBlock == 5      \* highest block number of the queried chain head
MaxServiceCalls == 3  \* calls of getOrCreateWebServices / registerWebServices
MaxSends == 3      \* readStorage / writeStorage calls in one run

Calls == 1..MaxCalls

\* ------------------------------------------------------------------ values
CredTypes == {"MNEMONIC_STRING", "CACTUS_KEYCHAIN_REF", "NONE", "OTHER"}

\* Mnemonics: "//Alice" and "//Bob" derive a keypair, "bad" makes
\* keyring.createFromUri throw.
Mnemonics == {"//Alice", "//Bob", "bad"}
\* Mutant: a keypair is derived from any string
ValidMnemonic_Any(m) == m \in {"//Alice", "//Bob", "bad"}

ValidMnemonic(m) == m \in {"//Alice", "//Bob"}

\* The plugin registry of the tests: one keychain "kc1" holding entry "e1".
KeychainIds == {"kc1", "kcX"}
RegisteredKeychains == {"kc1"}
KeychainEntry == "//Bob"

\* Addresses a transfer can name; "notAnAddress" makes the transfer builder throw.
Addresses == {"bob", "notAnAddress"}
ValidAddress(a) == a = "bob"
Values == {"2", "3"}
\* A field the request does not carry (transactionConfig.to, .value)
Absent == "undefined"

\* Hashes are tagged so that a block hash, an extrinsic hash and the codec hash
\* of a status value are different things; Undefined is JavaScript's undefined.
Undefined == [kind |-> "undefined", of |-> 0]
BlockHash(b) == [kind |-> "block", of |-> b]
TxHash(c) == [kind |-> "extrinsic", of |-> c]
StatusHash(b) == [kind |-> "status", of |-> b]
Blocks == {1, 2}

NoError == [wrap |-> "", msg |-> ""]
NoResult == [success |-> FALSE, transactionHash |-> Undefined,
             blockhash |-> Undefined, address |-> "undefined"]
NoResponse == [success |-> FALSE, txHash |-> Undefined,
               blockHash |-> Undefined, address |-> "undefined"]

\* What one invocation of a subscription callback receives: the status, whether
\* the block's events hold system.ExtrinsicSuccess, the number of the including
\* block, the dispatch error and the instantiated contract's address.
Notification(st, ok, b, de, ca) ==
    [status |-> st, success |-> ok, block |-> b, dispatchError |-> de,
     contract |-> ca]
NoNotification == Notification("none", FALSE, 0, "none", "none")

\* req.params: absent, or a list of constructor arguments
NoParams == [present |-> FALSE, list |-> <<>>]

\* The HTTP response of an endpoint request: how many times it was sent, its
\* status code and what its body is
NoRes == [sent |-> 0, status |-> 0, body |-> "none"]

\* A call slot. op, cred, keychainId, params record the request; path, pc,
\* promise, txResult, reason, response, error are the call's own state;
\* lookups, parses, derives, signs, submits count its calls to the keychain
\* plugin, the ABI parser, the keyring, the signer and the node; subscribed,
\* first, late, phase record what the node did with the submission; handler
\* and res are the endpoint handler that made the call and its response;
\* mnemonic is the mnemonic the call derives its keypair from, reads counts
\* its reads of the keychain entry, metadata is req.metadata.
IdleCall == [op |-> "none", cred |-> "none", path |-> "none", pc |-> "idle",
             promise |-> "none", txResult |-> NoResult, reason |-> "",
             response |-> NoResponse, error |-> NoError,
             keychainId |-> "none", params |-> NoParams,
             lookups |-> 0, parses |-> 0, derives |-> 0, signs |-> 0,
             submits |-> 0, subscribed |-> FALSE, unsignedTx |-> FALSE,
             ctor |-> "none", args |-> <<>>, pair |-> FALSE,
             handler |-> "none", res |-> NoRes,
             mnemonic |-> "none", reads |-> 0, metadata |-> "none",
             first |-> NoNotification, late |-> FALSE, phase |-> "none"]

\* this.endpoints before the first getOrCreateWebServices: not an array.
\* id names the array object, created counts the endpoint objects
\* constructed, returned is the id of the array the last call returned,
\* served counts the calls and registered the registerExpress invocations.
NoEndpoints == [isArray |-> FALSE, id |-> 0, list |-> <<>>, created |-> 0,
                returned |-> 0, served |-> 0, registered |-> 0]

\* No readStorage / writeStorage call yet
NoStorage == [name |-> "none", success |-> FALSE, hash |-> Undefined,
              sends |-> 0, count |-> 0, error |-> NoError]

\* ------------------------------------------------------------------ state
VARIABLES
    api,        \* this.api: "undefined" | "connected" | "disconnected"
    calls,      \* one record per call slot
    delivered,  \* notifications delivered so far (bounded by MaxNotifs)
    metric,     \* prometheusExporter.addCurrentTransaction() count
    rawTx,      \* last hex string returned by rawTransaction
    signedTx,   \* last hex string returned by signTransaction
    chain,      \* what the node reports: head block number, account nonce
    info,       \* last response of obtainTransactionInformation
    last,       \* outcome of the last rawTransaction / signTransaction /
                \* obtainTransactionInformation call
    keychain,   \* the secret the registered keychain plugin holds under the
                \* entry key
    endpoints,  \* this.endpoints and what getOrCreateWebServices did so far
    storage     \* outcome of the last readStorage / writeStorage call

vars == <<api, calls, delivered, metric, rawTx, signedTx, chain, info, last,
          keychain, endpoints, storage>>

\* ------------------------------------------------ hex strings and extrinsics
\* A hex string is a sequence of one-character strings. An extrinsic is
\* serialized as "0x", one digit for the signed flag, one for the destination,
\* one for the value, then the digits of the signature (all zero while
\* the extrinsic is unsigned).
HexDigits == {"0", "1", "2", "3", "a", "b"}
EmptySignature == <<"0", "0">>
SignatureOf(m) == IF m = "//Alice" THEN <<"a", "1">> ELSE <<"b", "1">>
AddrDigit(a) == "1"

\* !value in JavaScript, for a string
Falsy(str) == Len(str) = 0

\* isHex of @polkadot/util: "0x" followed by hex digits, of even length
isHex(str) ==
    /\ Len(str) >= 2
    /\ str[1] = "0" /\ str[2] = "x"
    /\ \A i \in 3..Len(str) : str[i] \in HexDigits
    /\ Len(str) % 2 = 0

\* Codec.toHex(): always the "0x" prefix, then the digits of the value
toHex(digits) == <<"0", "x">> \o digits

\* SubmittableExtrinsic.toHex()
ExtrinsicToHex(tx) ==
    toHex(<<(IF tx.signed THEN "1" ELSE "0"), AddrDigit(tx.to), tx.value>>
          \o tx.signature)

\* this.api.tx(hex): rehydrates a serialized extrinsic, throws on anything else
CanDeserialize(str) ==
    /\ Len(str) = 5 + Len(EmptySignature)
    /\ str[1] = "0" /\ str[2] = "x"
    /\ str[3] \in {"0", "1"}
    /\ str[4] = "1"
    /\ str[5] \in Values
    /\ \A i \in 6..Len(str) : str[i] \in HexDigits

Deserialize(str) ==
    [signed |-> str[3] = "1", to |-> "bob", value |-> str[5],
     signature |-> SubSeq(str, 6, Len(str))]

\* this.api.tx.balances.transfer(to, value): an unsigned transfer extrinsic
Transfer(to, value) ==
    [signed |-> FALSE, to |-> to, value |-> value, signature |-> EmptySignature]

\* extrinsic.signAsync(pair, options)
SignWith(tx, m) == [tx EXCEPT !.signed = TRUE, !.signature = SignatureOf(m)]

Garbage == <<"z">>
NoHex == <<>>

\* ------------------------------------------------------- errors and promises
\* throw Error(...): the call ends with an error. wrap is the fnTag of the
\* catch block that wrapped the error ("" when it was thrown unwrapped).
Throw(call, wrap, msg) ==
    [call EXCEPT !.pc = "threw", !.error = [wrap |-> wrap, msg |-> msg]]

NotConnected(call) == Throw(call, "", "not connected")

\* Mutant: a completion signal that a later resolve overwrites
Resolve_Overwrites(call, value) ==
    IF call.promise \in {"pending", "resolved", "rejected"}
    THEN [call EXCEPT !.promise = "resolved", !.txResult = value]
    ELSE call

\* resolve(value) of the Promise the call awaits: settles a pending promise,
\* does nothing on a settled one
Resolve(call, value) ==
    IF call.promise = "pending"
    THEN [call EXCEPT !.promise = "resolved", !.txResult = value]
    ELSE call

\* reject(reason) of the Promise the call awaits
Reject(call, why) ==
    IF call.promise = "pending"
    THEN [call EXCEPT !.promise = "rejected", !.reason = why]
    ELSE call

\* The call suspends on `await new Promise(...)`. submitOk says whether the
\* submit primitive succeeded: when it fails, the promise it returns rejects,
\* nothing observes that rejection, and no notification ever arrives.
\* Mutant: the extrinsic is handed to the node twice
Await_Twice(call, path, submitOk) ==
    [call EXCEPT !.pc = "awaiting", !.path = path, !.promise = "pending",
                 !.submits = call.submits + 2, !.subscribed = submitOk,
                 !.phase = IF submitOk THEN "accepted" ELSE "none"]

Await(call, path, submitOk) ==
    [call EXCEPT !.pc = "awaiting", !.path = path, !.promise = "pending",
                 !.submits = call.submits + 1, !.subscribed = submitOk,
                 !.phase = IF submitOk THEN "accepted" ELSE "none"]

\* ----------------------------------------------------------------- transact
\* transactMnemonicString up to its await. transactionConfig.to and .value
\* go to api.tx.balances.transfer untested; encodeOk says whether the
\* encoder accepts a field that is undefined.
transactMnemonicString(call, mnemonic, cfg, encodeOk, submitOk) ==
    IF api = "undefined" THEN NotConnected(call)
    ELSE LET d == [call EXCEPT !.derives = call.derives + 1,
                               !.mnemonic = mnemonic] IN
         IF ~ValidMnemonic(mnemonic)
         THEN Throw(d, "transactMnemonicString", "createFromUri failed")
         ELSE IF cfg.to = Absent \/ cfg.value = Absent
         THEN IF encodeOk
              THEN Await([d EXCEPT !.signs = d.signs + 1], "keypair", submitOk)
              ELSE Throw(d, "transactMnemonicString", "transfer failed")
         ELSE IF ~ValidAddress(cfg.to)
         THEN Throw(d, "transactMnemonicString", "transfer failed")
         ELSE Await([d EXCEPT !.signs = d.signs + 1], "keypair", submitOk)

\* Mutant: a missing keychain plugin is not checked; the lookup yields
\* undefined and the call goes on with it
transactCactusKeychainRef_Unchecked(call, keychainId, cfg, encodeOk, submitOk) ==
    LET l == [call EXCEPT !.lookups = call.lookups + 1] IN
    transactMnemonicString(l,
        IF keychainId \in RegisteredKeychains THEN keychain ELSE "bad",
        cfg, encodeOk, submitOk)

\* Mutant: the transactionConfig is not handed on with the secret
transactCactusKeychainRef_DropsConfig(call, keychainId, cfg, encodeOk, submitOk) ==
    LET l == [call EXCEPT !.lookups = call.lookups + 1] IN
    IF keychainId \notin RegisteredKeychains
    THEN Throw(l, "", "keychain not found")
    ELSE transactMnemonicString([l EXCEPT !.reads = l.reads + 1], keychain,
                                [cfg EXCEPT !.to = Absent], encodeOk, submitOk)

\* Mutant: the secret is read once and kept
transactCactusKeychainRef_Cached(call, keychainId, cfg, encodeOk, submitOk) ==
    LET l == [call EXCEPT !.lookups = call.lookups + 1] IN
    IF keychainId \notin RegisteredKeychains
    THEN Throw(l, "", "keychain not found")
    ELSE transactMnemonicString([l EXCEPT !.reads = l.reads + 1],
                                KeychainEntry, cfg, encodeOk, submitOk)

\* transactCactusKeychainRef: the keychain lookup, then transactMnemonicString
transactCactusKeychainRef(call, keychainId, cfg, encodeOk, submitOk) ==
    LET l == [call EXCEPT !.lookups = call.lookups + 1] IN
    IF keychainId \notin RegisteredKeychains
    THEN Throw(l, "", "keychain not found")
    ELSE transactMnemonicString([l EXCEPT !.reads = l.reads + 1], keychain,
                                cfg, encodeOk, submitOk)

\* transactSigned up to its await
transactSigned(call, signedHex, submitOk) ==
    IF Falsy(signedHex) THEN Throw(call, "", "transferSubmittable missing")
    ELSE IF api = "undefined" THEN NotConnected(call)
    ELSE IF ~CanDeserialize(signedHex) THEN Throw(call, "", "api.tx failed")
    ELSE LET deserializedTransaction == Deserialize(signedHex)
             signature == toHex(deserializedTransaction.signature)
             d == [call EXCEPT !.unsignedTx = ~deserializedTransaction.signed]
         IN  IF Falsy(signature)
             THEN Throw(d, "", "Transaction is not signed")
             ELSE IF ~isHex(signature)
             THEN Throw(d, "", "Transaction signature is not valid")
             ELSE Await(d, "signed", submitOk)

\* Mutant: the switch has no default case and an unknown tag is taken for
\* the mnemonic variant
transact_NoDefault(call, req, encodeOk, submitOk) ==
    LET c == [call EXCEPT !.op = "transact", !.cred = req.cred,
                          !.keychainId = req.keychainId,
                          !.pair = req.cfg.to # Absent /\ req.cfg.value # Absent]
    IN
    CASE req.cred = "CACTUS_KEYCHAIN_REF" ->
            transactCactusKeychainRef(c, req.keychainId, req.cfg, encodeOk, submitOk)
      [] req.cred = "NONE" ->
            IF ~Falsy(req.cfg.transferSubmittable)
            THEN transactSigned(c, req.cfg.transferSubmittable, submitOk)
            ELSE Throw(c, "", "expected pre-signed raw transaction")
      [] OTHER -> transactMnemonicString(c, "//Alice", req.cfg, encodeOk,
                                         submitOk)

\* transact: the switch on req.web3SigningCredential.type
transact(call, req, encodeOk, submitOk) ==
    LET c == [call EXCEPT !.op = "transact", !.cred = req.cred,
                          !.keychainId = req.keychainId,
                          !.pair = req.cfg.to # Absent /\ req.cfg.value # Absent]
    IN
    CASE req.cred = "CACTUS_KEYCHAIN_REF" ->
            transactCactusKeychainRef(c, req.keychainId, req.cfg, encodeOk, submitOk)
      [] req.cred = "MNEMONIC_STRING" ->
            transactMnemonicString(c, req.mnemonic, req.cfg, encodeOk, submitOk)
      [] req.cred = "NONE" ->
            IF ~Falsy(req.cfg.transferSubmittable)
            THEN transactSigned(c, req.cfg.transferSubmittable, submitOk)
            ELSE Throw(c, "", "expected pre-signed raw transaction")
      [] OTHER -> Throw(c, "", "unrecognized credential type")

\* ----------------------------------------------------------- deployContract
\* Contract metadata a request can carry: "flipper", "incrementer" and
\* "empty" parse (new Abi succeeds), "garbage" makes new Abi throw.
Metadatas == {"flipper", "incrementer", "empty", "garbage"}
CanParseAbi(metadata) == metadata # "garbage"
\* contractAbi.constructors, in declaration order
Constructors(metadata) ==
    CASE metadata = "flipper" -> <<"new", "default">>
      [] metadata = "empty" -> <<>>
      [] OTHER -> <<"default", "new", "new_init">>

ParamChoices ==
    {NoParams} \cup {[present |-> TRUE, list |-> l] :
                      l \in {<<>>, <<"p1", "p2">>}}

\* Mutant: the request's list is spread as it is, an empty one included
ConstructorArgs_AsGiven(params) == params.list

\* The arguments handed to contractCode.tx[constructor](options, ...)
ConstructorArgs(params) ==
    IF params.present /\ Len(params.list) > 0
    THEN params.list
    ELSE <<"undefined">>

\* Mutant: the pre-signed credential is not refused
isWeb3SigningCredentialNone_Never(cred) == FALSE

\* The check of deployContract that refuses the pre-signed credential
isWeb3SigningCredentialNone(cred) == cred = "NONE"

\* Mutant: the constructor declared last is taken
ConstructorOf_Last(metadata) ==
    Constructors(metadata)[Len(Constructors(metadata))]

\* contractAbi.constructors[0].method
ConstructorOf(metadata) == Constructors(metadata)[1]

\* Mutant: the credential is looked at before the connection
deployContract_CredentialFirst(call, req, buildOk, submitOk) ==
    LET c == [call EXCEPT !.op = "deployContract", !.cred = req.cred,
                          !.keychainId = req.keychainId,
                          !.params = req.params,
                          !.metadata = req.metadata]
    IN
    IF isWeb3SigningCredentialNone(req.cred)
    THEN Throw(c, "", "cannot deploy contract with pre-signed TX")
    ELSE IF req.cred \notin {"MNEMONIC_STRING", "CACTUS_KEYCHAIN_REF"}
    THEN Throw(c, "", "unrecognized credential type")
    ELSE IF req.cred = "CACTUS_KEYCHAIN_REF"
    THEN Throw([c EXCEPT !.lookups = c.lookups + 1], "", "keychain not found")
    ELSE IF api = "undefined" THEN NotConnected(c)
    ELSE Throw([c EXCEPT !.parses = c.parses + 1], "", "new Abi failed")

\* deployContract up to its await. buildOk says whether building the
\* instantiate call succeeded (the encoder throws otherwise).
deployContract(call, req, buildOk, submitOk) ==
    LET c == [call EXCEPT !.op = "deployContract", !.cred = req.cred,
                          !.keychainId = req.keychainId,
                          !.params = req.params,
                          !.metadata = req.metadata]
    IN
    IF api = "undefined" THEN NotConnected(c)
    ELSE IF isWeb3SigningCredentialNone(req.cred)
    THEN Throw(c, "", "cannot deploy contract with pre-signed TX")
    ELSE IF req.cred \notin {"MNEMONIC_STRING", "CACTUS_KEYCHAIN_REF"}
    THEN Throw(c, "", "unrecognized credential type")
    ELSE LET l == IF req.cred = "CACTUS_KEYCHAIN_REF"
                  THEN [c EXCEPT !.lookups = c.lookups + 1] ELSE c
             mnemonic == IF req.cred = "MNEMONIC_STRING"
                         THEN req.mnemonic ELSE keychain
             r == [l EXCEPT !.mnemonic = mnemonic,
                            !.reads = IF req.cred = "CACTUS_KEYCHAIN_REF"
                                      THEN l.reads + 1 ELSE l.reads]
         IN
         IF req.cred = "CACTUS_KEYCHAIN_REF"
               /\ req.keychainId \notin RegisteredKeychains
         THEN Throw(l, "", "keychain not found")
         ELSE IF ~CanParseAbi(req.metadata)
         THEN Throw([r EXCEPT !.parses = r.parses + 1], "", "new Abi failed")
         ELSE LET d == [r EXCEPT !.parses = r.parses + 1,
                                 !.derives = r.derives + 1] IN
              IF ~ValidMnemonic(mnemonic)
              THEN Throw(d, "deployContract", "createFromUri failed")
              ELSE IF Len(Constructors(req.metadata)) = 0
              THEN Throw(d, "deployContract", "constructors[0] is undefined")
              ELSE LET t == [d EXCEPT !.ctor = ConstructorOf(req.metadata),
                                      !.args = ConstructorArgs(req.params)]
                   IN  IF ~buildOk
                       THEN Throw(t, "deployContract", "instantiate call failed")
                       ELSE Await([t EXCEPT !.signs = t.signs + 1],
                                  "deploy", submitOk)

\* ------------------------------------------------------------ notifications
Statuses == {"Ready", "Broadcast", "InBlock", "Finalized",
             "Dropped", "Invalid", "Usurped"}
Included == {"InBlock", "Finalized"}
DispatchErrors == {"none", "module", "other"}
Addresses2 == {"5Contract1", "5Contract2"}

\* Notifications of a transfer subscription (signAndSend, submitAndWatchExtrinsic)
TransferNotifications ==
    {Notification(st, FALSE, 0, "none", "none") : st \in Statuses \ Included}
    \cup {Notification("InBlock", ok, b, "none", "none") :
             ok \in BOOLEAN, b \in Blocks}
    \cup {Notification("Finalized", TRUE, b, "none", "none") : b \in Blocks}

\* Notifications of a deployment subscription: an included one carries either a
\* dispatch error or the instantiated contract
DeployNotifications ==
    {Notification(st, FALSE, 0, "none", "none") : st \in Statuses \ Included}
    \cup {Notification(st, FALSE, b, de, "none") :
             st \in Included, b \in {1}, de \in DispatchErrors \ {"none"}}
    \cup {Notification(st, TRUE, b, "none", ca) :
             st \in Included, b \in {1}, ca \in Addresses2}

\* Whether the asInBlock accessor aborts the callback: open on the
\* pre-signed path only, the other callbacks do not destructure the status
AccessorOutcomes(path) == IF path = "signed" THEN BOOLEAN ELSE {FALSE}

NotificationsOf(path) ==
    IF path = "deploy" THEN DeployNotifications ELSE TransferNotifications

\* The message of the Error the keypair callback throws after it has
\* rejected; it ends with the emitted events
TransactionFailed ==
    "Transaction Failed: system.ExtrinsicSuccess not detected, events emitted are"

\* Mutant: a callback that does not look for system.ExtrinsicSuccess
KeypairCallback_AnyInBlock(c, call, n) ==
    IF n.status = "InBlock"
    THEN Resolve(call, [NoResult EXCEPT !.success = TRUE,
                           !.blockhash = BlockHash(n.block),
                           !.transactionHash = TxHash(c)])
    ELSE call

\* The signAndSend callback of transactMnemonicString, for call c
KeypairCallback(c, call, n) ==
    IF n.status = "InBlock"
    THEN IF n.success
         THEN Resolve(call, [NoResult EXCEPT !.success = TRUE,
                                !.blockhash = BlockHash(n.block),
                                !.transactionHash = TxHash(c)])
         ELSE Reject(call, "transaction not successful")
    ELSE call

\* The message of the Error the pre-signed callback throws after it has
\* rejected: `transaction not submitted with status: ${type}`
NotSubmitted(type) ==
    CASE type = "Dropped" -> "transaction not submitted with status: Dropped"
      [] type = "Invalid" -> "transaction not submitted with status: Invalid"
      [] type = "Usurped" -> "transaction not submitted with status: Usurped"
      [] OTHER -> "transaction not submitted with status: other"

\* The submitAndWatchExtrinsic callback of transactSigned. Its parameter
\* destructures asInBlock from the status: on a status other than InBlock
\* that accessor either throws (aborts: the callback body does not run) or
\* yields undefined (the body runs).
SignedCallback(call, n, aborts) ==
    IF n.status # "InBlock" /\ aborts
    THEN call
    ELSE IF n.status = "InBlock"
         THEN Resolve(call, [NoResult EXCEPT !.success = TRUE,
                                !.blockhash = BlockHash(n.block),
                                !.transactionHash = StatusHash(n.block)])
         ELSE Reject(call, "transaction not successful")

\* The message of the Error the deployment callback throws after it has
\* rejected: `${section}.${name}: ${docs}` of registry.findMetaError for a
\* module error, dispatchError.toString() otherwise
DecodedError(de) ==
    IF de = "module" THEN "contracts.CodeRejected: docs" ELSE "dispatchError: other"

\* The signAndSend callback of deployContract
DeployCallback(call, n) ==
    IF api = "undefined" THEN call
    ELSE IF n.status \in Included
    THEN IF n.dispatchError # "none"
         THEN Reject(call, "deployment not successful")
         ELSE IF n.contract = "none" THEN call
         ELSE Resolve(call, [NoResult EXCEPT !.success = TRUE,
                                             !.address = n.contract])
    ELSE call

Callback(c, call, n, aborts) ==
    CASE call.path = "keypair" -> KeypairCallback(c, call, n)
      [] call.path = "signed" -> SignedCallback(call, n, aborts)
      [] call.path = "deploy" -> DeployCallback(call, n)
      [] OTHER -> call

\* The statuses that report inclusion on each path: a transfer waits for
\* InBlock, a deployment for InBlock or Finalized
Decisive(path, n) ==
    IF path = "deploy" THEN n.status \in Included ELSE n.status = "InBlock"

\* The node's status protocol for one submission, as far as the notifications
\* delivered so far follow it: Ready, optionally Broadcast, InBlock with
\* system.ExtrinsicSuccess (resp. without a dispatch error), Finalized.
\* Anything else leaves the normal sequence for good.
NormalPhases == {"accepted", "ready", "broadcast", "inblock", "finalized"}
NodeStep(phase, n) ==
    LET st == n.status
        good == n.success /\ n.dispatchError = "none"
    IN
    CASE phase = "accepted" /\ st = "Ready" -> "ready"
      [] phase = "ready" /\ st = "Broadcast" -> "broadcast"
      [] phase \in {"ready", "broadcast"} /\ st = "InBlock" /\ good -> "inblock"
      [] phase = "inblock" /\ st = "Finalized" /\ good -> "finalized"
      [] OTHER -> "offnormal"

\* Bookkeeping of the model, not of the program: whether a notification
\* arrived after the promise had settled, and the first notification that
\* reported inclusion
Noted(before, after, n) ==
    [after EXCEPT
       !.late = before.late \/ before.promise # "pending",
       !.first = IF before.first = NoNotification /\ Decisive(before.path, n)
                 THEN n ELSE before.first]

\* ------------------------------------------- the code after each await
\* Mutant: the block hash is read from a field the result does not have
ResumeKeypair_NoBlockHash(call) ==
    IF call.promise = "resolved"
    THEN [call EXCEPT !.pc = "returned",
            !.response = [NoResponse EXCEPT
                            !.success = call.txResult.success,
                            !.txHash = call.txResult.transactionHash]]
    ELSE Throw(call, "transactMnemonicString", call.reason)

\* transactMnemonicString after `await new Promise`
ResumeKeypair(call) ==
    IF call.promise = "resolved"
    THEN [call EXCEPT !.pc = "returned",
            !.response = [NoResponse EXCEPT
                            !.success = call.txResult.success,
                            !.txHash = call.txResult.transactionHash,
                            !.blockHash = call.txResult.blockhash]]
    ELSE Throw(call, "transactMnemonicString", call.reason)

\* transactSigned after `await new Promise`; incOk says whether
\* prometheusExporter.addCurrentTransaction() returned normally
ResumeSigned(call, incOk) ==
    IF call.promise = "resolved"
    THEN IF incOk
         THEN [call EXCEPT !.pc = "returned",
                 !.response = [NoResponse EXCEPT
                                 !.success = TRUE,
                                 !.txHash = call.txResult.transactionHash,
                                 !.blockHash = call.txResult.blockhash]]
         ELSE Throw(call, "transactSigned", "metrics failed")
    ELSE Throw(call, "transactSigned", call.reason)

\* Mutant: the address of the awaited result is not copied to the response
ResumeDeploy_SuccessOnly(call) ==
    IF call.promise = "resolved"
    THEN [call EXCEPT !.pc = "returned",
            !.response = [NoResponse EXCEPT
                            !.success = call.txResult.success]]
    ELSE Throw(call, "deployContract", call.reason)

\* deployContract after `await new Promise`
ResumeDeploy(call) ==
    IF call.promise = "resolved"
    THEN [call EXCEPT !.pc = "returned",
            !.response = [NoResponse EXCEPT
                            !.success = call.txResult.success,
                            !.address = call.txResult.address]]
    ELSE Throw(call, "deployContract", call.reason)

\* Whether the resumed code increments the transaction metric
Increments(call, incOk) ==
    \/ call.path = "signed" /\ call.promise = "resolved" /\ incOk
    \/ call.path = "deploy" /\ call.promise = "resolved"
          /\ call.txResult.address = ""

\* ------------------------------------------------------------------ actions
NoInfo == [queried |-> FALSE, window |-> [present |-> FALSE, value |-> 0],
           number |-> 0,
           nonce |-> 0, blockHash |-> Undefined, period |-> 0, phase |-> 0]
NoOp == [name |-> "none", error |-> NoError, mnemonic |-> "none"]

Init ==
    /\ api = "undefined"
    /\ calls = [c \in Calls |-> IdleCall]
    /\ delivered = 0
    /\ metric = 0
    /\ rawTx = NoHex
    /\ signedTx = NoHex
    /\ chain = [number |-> 0, nonce |-> 0]
    /\ info = NoInfo
    /\ last = NoOp
    /\ keychain = KeychainEntry
    /\ endpoints = NoEndpoints
    /\ storage = NoStorage

\* createAPI(): the connection is established
CreateAPI ==
    /\ api = "undefined"
    /\ api' = "connected"
    /\ UNCHANGED <<endpoints, storage, keychain, calls, delivered, metric, rawTx, signedTx, chain, info, last>>

\* The pre-signed payloads a request can carry: nothing, an unsigned transfer
\* as rawTransaction returns it, a transfer as signTransaction returns it, and
\* a string that is no extrinsic.
Payloads ==
    {NoHex, Garbage}
    \cup {ExtrinsicToHex(Transfer("bob", v)) : v \in Values}
    \cup {ExtrinsicToHex(SignWith(Transfer("bob", v), "//Alice")) : v \in Values}

TransactRequests ==
    {[cred |-> "MNEMONIC_STRING", mnemonic |-> m, keychainId |-> "none",
      cfg |-> [to |-> a, value |-> "2", transferSubmittable |-> NoHex]] :
        m \in Mnemonics, a \in Addresses}
    \cup {[cred |-> "CACTUS_KEYCHAIN_REF", mnemonic |-> "none", keychainId |-> k,
      cfg |-> [to |-> a, value |-> "2", transferSubmittable |-> NoHex]] :
        k \in KeychainIds, a \in Addresses}
    \cup {[cred |-> "MNEMONIC_STRING", mnemonic |-> "//Alice",
            keychainId |-> "none",
            cfg |-> [to |-> Absent, value |-> "2", transferSubmittable |-> NoHex]],
           [cred |-> "MNEMONIC_STRING", mnemonic |-> "//Alice",
            keychainId |-> "none",
            cfg |-> [to |-> "bob", value |-> Absent, transferSubmittable |-> NoHex]]}
    \cup {[cred |-> t, mnemonic |-> "none", keychainId |-> "none",
      cfg |-> [to |-> "bob", value |-> "2", transferSubmittable |-> p]] :
        t \in {"NONE", "OTHER"}, p \in Payloads}

DeployRequests ==
    {[cred |-> "MNEMONIC_STRING", mnemonic |-> m, keychainId |-> "none",
      metadata |-> md, params |-> ps] :
        m \in {"//Alice", "bad"}, md \in Metadatas, ps \in ParamChoices}
    \cup {[cred |-> "CACTUS_KEYCHAIN_REF", mnemonic |-> "none", keychainId |-> k,
      metadata |-> md, params |-> ps] :
        k \in KeychainIds, md \in {"flipper", "garbage"}, ps \in {NoParams}}
    \cup {[cred |-> t, mnemonic |-> "none", keychainId |-> "none",
      metadata |-> md, params |-> ps] :
        t \in {"NONE", "OTHER"}, md \in Metadatas, ps \in ParamChoices}

\* Call slots are taken in order
Free(c) == calls[c].pc = "idle" /\ \A d \in Calls : d < c => calls[d].pc # "idle"

\* A caller invokes transact(req)
Transact(c) ==
    /\ Free(c)
    /\ \E req \in TransactRequests, encodeOk \in BOOLEAN, submitOk \in BOOLEAN :
          calls' = [calls EXCEPT
                      ![c] = transact(calls[c], req, encodeOk, submitOk)]
    /\ UNCHANGED <<endpoints, storage, keychain, api, delivered, metric, rawTx, signedTx, chain, info, last>>

\* A caller invokes deployContract(req)
DeployContract(c) ==
    /\ Free(c)
    /\ \E req \in DeployRequests, buildOk \in BOOLEAN, submitOk \in BOOLEAN :
          calls' = [calls EXCEPT
                      ![c] = deployContract(calls[c], req, buildOk, submitOk)]
    /\ UNCHANGED <<endpoints, storage, keychain, api, delivered, metric, rawTx, signedTx, chain, info, last>>

\* Mutant: a notification reaches every open subscription
Notify_Broadcast(c) ==
    /\ calls[c].subscribed
    /\ delivered < MaxNotifs
    /\ \E n \in NotificationsOf(calls[c].path),
          aborts \in AccessorOutcomes(calls[c].path) :
          calls' = [d \in DOMAIN calls |->
                      IF calls[d].subscribed /\ calls[d].path = calls[c].path
                      THEN Noted(calls[d], Callback(d, calls[d], n, aborts), n)
                      ELSE calls[d]]
    /\ delivered' = delivered + 1
    /\ UNCHANGED <<endpoints, storage, keychain, api, metric, rawTx, signedTx, chain, info, last>>

\* The node delivers one notification to the subscription of call c
Notify(c) ==
    /\ calls[c].subscribed
    /\ delivered < MaxNotifs
    /\ \E n \in NotificationsOf(calls[c].path),
          aborts \in AccessorOutcomes(calls[c].path) :
          calls' = [calls EXCEPT ![c] =
                      Noted(calls[c], Callback(c, calls[c], n, aborts), n)]
    /\ delivered' = delivered + 1
    /\ UNCHANGED <<endpoints, storage, keychain, api, metric, rawTx, signedTx, chain, info, last>>

\* The awaited promise of call c has settled: the call runs to its end
ResumeWith(c, incOk) ==
    /\ calls[c].pc = "awaiting"
    /\ calls[c].promise \in {"resolved", "rejected"}
    /\ calls' = [calls EXCEPT ![c] =
          CASE calls[c].path = "keypair" -> ResumeKeypair(calls[c])
            [] calls[c].path = "signed" -> ResumeSigned(calls[c], incOk)
            [] OTHER -> ResumeDeploy(calls[c])]
    /\ metric' = IF Increments(calls[c], incOk) THEN metric + 1 ELSE metric
    /\ UNCHANGED <<endpoints, storage, keychain, api, delivered, rawTx, signedTx, chain, info, last>>

Resume(c) == \E incOk \in BOOLEAN : ResumeWith(c, incOk)

Next ==
    \/ CreateAPI
    \/ \E c \in Calls : Transact(c)
    \/ \E c \in Calls : DeployContract(c)
    \/ \E c \in Calls : Notify(c)
    \/ \E c \in Calls : Resume(c)

Spec == Init /\ [][Next]_vars

\* ------------------------------------------------------- offline signing
\* Mutant: rawTransaction signs the transfer it built and counts it as a
\* submitted transaction
RawTransaction_Signs ==
    \E to \in Addresses, value \in Values :
       /\ api # "undefined"
       /\ ValidAddress(to)
       /\ last' = [name |-> "rawTransaction", mnemonic |-> "none",
                   error |-> NoError]
       /\ rawTx' = ExtrinsicToHex(SignWith(Transfer(to, value), "//Alice"))
       /\ metric' = metric + 1
       /\ UNCHANGED <<endpoints, storage, keychain, api, calls, delivered, signedTx, chain, info>>

\* rawTransaction(req)
RawTransaction ==
    \E to \in Addresses, value \in Values :
       /\ IF api = "undefined"
          THEN /\ last' = [name |-> "rawTransaction", mnemonic |-> "none",
                          error |-> [wrap |-> "", msg |-> "not connected"]]
               /\ rawTx' = rawTx
          ELSE IF ~ValidAddress(to)
          THEN /\ last' = [name |-> "rawTransaction", mnemonic |-> "none",
                          error |-> [wrap |-> "rawTx", msg |-> "transfer failed"]]
               /\ rawTx' = rawTx
          ELSE /\ last' = [name |-> "rawTransaction", mnemonic |-> "none",
                          error |-> NoError]
               /\ rawTx' = ExtrinsicToHex(Transfer(to, value))
       /\ UNCHANGED <<endpoints, storage, keychain, api, calls, delivered, metric, signedTx, chain, info>>

\* signTransaction(req): req.rawTransaction is what rawTransaction returned,
\* or a string that is no extrinsic
SignTransaction ==
    \E raw \in {rawTx, Garbage}, m \in Mnemonics :
       /\ IF api = "undefined"
          THEN /\ last' = [name |-> "signTransaction", mnemonic |-> m,
                          error |-> [wrap |-> "", msg |-> "not connected"]]
               /\ signedTx' = signedTx
          ELSE IF ~ValidMnemonic(m)
          THEN /\ last' = [name |-> "signTransaction", mnemonic |-> m,
                          error |-> [wrap |-> "signTx",
                                     msg |-> "createFromUri failed"]]
               /\ signedTx' = signedTx
          ELSE IF ~CanDeserialize(raw)
          THEN /\ last' = [name |-> "signTransaction", mnemonic |-> m,
                          error |-> [wrap |-> "signTx", msg |-> "api.tx failed"]]
               /\ signedTx' = signedTx
          ELSE /\ last' = [name |-> "signTransaction", mnemonic |-> m,
                          error |-> NoError]
               /\ signedTx' = ExtrinsicToHex(SignWith(Deserialize(raw), m))
       /\ UNCHANGED <<endpoints, storage, keychain, api, calls, delivered, metric, rawTx, chain, info>>

\* --------------------------------------------- obtainTransactionInformation
DefaultExpiration == 50

\* The smallest power of two that is >= n (2 ^ ceil(log2 n)), for n >= 1
RECURSIVE PowerOfTwoFrom(_, _)
PowerOfTwoFrom(p, n) == IF p >= n THEN p ELSE PowerOfTwoFrom(2 * p, n)

\* Mutant: an era that keeps the period it is given
EraPeriod_Unrounded(period) == period

\* api.createType("ExtrinsicEra", {current, period}): a mortal era encodes
\* the period rounded up to a power of two within [4, 65536] and the phase of
\* the current block within that period
EraPeriod(period) ==
    LET calPeriod == PowerOfTwoFrom(1, period) IN
    IF calPeriod < 4 THEN 4 ELSE IF calPeriod > 65536 THEN 65536 ELSE calPeriod

EraPhase(current, period) == current % EraPeriod(period)

\* req.transactionExpiration: absent, or a number of blocks
NoWindow == [present |-> FALSE, value |-> 0]
Windows ==
    {NoWindow} \cup {[present |-> TRUE, value |-> v] :
                      v \in {0, 3, 4, 5, 50, 64, 500, 70000}}

\* (req.transactionExpiration as number) || 50
TransactionExpiration(window) ==
    IF window.present /\ window.value # 0
    THEN window.value
    ELSE DefaultExpiration

ObtainTransactionInformation ==
    \E window \in Windows :
       /\ IF api = "undefined"
          THEN /\ last' = [name |-> "obtainTransactionInformation",
                          mnemonic |-> "none",
                          error |-> [wrap |-> "obtainTxInformation",
                                     msg |-> "not connected"]]
               /\ info' = info
          ELSE /\ last' = [name |-> "obtainTransactionInformation",
                          mnemonic |-> "none",
                          error |-> NoError]
               /\ info' = [queried |-> TRUE,
                           window |-> window,
                           number |-> chain.number,
                           nonce |-> chain.nonce,
                           blockHash |-> BlockHash(chain.number),
                           period |-> EraPeriod(TransactionExpiration(window)),
                           phase |-> EraPhase(chain.number,
                                              TransactionExpiration(window))]
       /\ UNCHANGED <<endpoints, storage, keychain, api, calls, delivered, metric, rawTx, signedTx, chain>>

\* The chain grows by a block; the account's nonce may grow with it
NewBlock ==
    /\ chain.number < MaxBlock
    /\ \E n \in {chain.nonce, chain.nonce + 1} :
          chain' = [number |-> chain.number + 1, nonce |-> n]
    /\ UNCHANGED <<endpoints, storage, keychain, api, calls, delivered, metric, rawTx, signedTx, info, last>>

NextInfo ==
    \/ CreateAPI
    \/ ObtainTransactionInformation
    \/ NewBlock

\* The transaction-information provider against a growing chain
SpecInfo == Init /\ [][NextInfo]_vars

\* ------------------------------------------------- offline-signing round trip
\* Two submissions of the same transfer against the same node behaviour:
\* call 1 is transact with the mnemonic credential, call 2 is transact with
\* the pre-signed credential and the payload signTransaction returned.
PairCalls == {1, 2}

InitPair ==
    /\ api = "undefined"
    /\ calls = [c \in PairCalls |-> IdleCall]
    /\ delivered = 0
    /\ metric = 0
    /\ rawTx = NoHex
    /\ signedTx = NoHex
    /\ chain = [number |-> 0, nonce |-> 0]
    /\ info = NoInfo
    /\ last = NoOp
    /\ keychain = KeychainEntry
    /\ endpoints = NoEndpoints
    /\ storage = NoStorage

SignerOf(hex) ==
    IF Deserialize(hex).signature = SignatureOf("//Alice")
    THEN "//Alice" ELSE "//Bob"

SubmitBoth ==
    /\ signedTx # NoHex
    /\ \A c \in PairCalls : calls[c].pc = "idle"
    /\ \E submitOk \in BOOLEAN :
          calls' = [c \in PairCalls |->
             IF c = 1
             THEN transact(calls[c],
                    [cred |-> "MNEMONIC_STRING", mnemonic |-> SignerOf(signedTx),
                     keychainId |-> "none",
                     cfg |-> [to |-> Deserialize(signedTx).to,
                              value |-> Deserialize(signedTx).value,
                              transferSubmittable |-> NoHex]], TRUE, submitOk)
             ELSE transact(calls[c],
                    [cred |-> "NONE", mnemonic |-> "none", keychainId |-> "none",
                     cfg |-> [to |-> "bob", value |-> "2",
                              transferSubmittable |-> signedTx]], TRUE, submitOk)]
    /\ UNCHANGED <<endpoints, storage, keychain, api, delivered, metric, rawTx, signedTx, chain, info, last>>

\* The node sends the same notification to both subscriptions
DeliverBoth ==
    /\ \A c \in PairCalls : calls[c].subscribed
    /\ delivered < MaxNotifs
    /\ \E n \in TransferNotifications, aborts \in BOOLEAN :
          calls' = [c \in PairCalls |->
                      Noted(calls[c], Callback(c, calls[c], n, aborts), n)]
    /\ delivered' = delivered + 1
    /\ UNCHANGED <<endpoints, storage, keychain, api, metric, rawTx, signedTx, chain, info, last>>

NextRoundTrip ==
    \/ CreateAPI
    \/ RawTransaction
    \/ SignTransaction
    \/ SubmitBoth
    \/ DeliverBoth
    \/ \E c \in PairCalls : ResumeWith(c, TRUE)

SpecRoundTrip == InitPair /\ [][NextRoundTrip]_vars

\* ------------------------------------------------- a well-behaved node
\* The node accepts the submission and sends its normal status sequence:
\* Ready, optionally Broadcast, InBlock with system.ExtrinsicSuccess (for a
\* deployment: with the contract and no dispatch error), Finalized.
NormalNext(call) ==
    LET ok(st, b) == IF call.path = "deploy"
                     THEN Notification(st, TRUE, 1, "none", "5Contract1")
                     ELSE Notification(st, TRUE, b, "none", "none")
    IN
    CASE call.phase = "accepted" ->
            {Notification("Ready", FALSE, 0, "none", "none")}
      [] call.phase = "ready" ->
            {Notification("Broadcast", FALSE, 0, "none", "none")}
            \cup {ok("InBlock", b) : b \in Blocks}
      [] call.phase = "broadcast" -> {ok("InBlock", b) : b \in Blocks}
      [] call.phase = "inblock" -> {ok("Finalized", call.first.block)}
      [] OTHER -> {}

NotifyNormal(c) ==
    /\ calls[c].subscribed
    /\ \E n \in NormalNext(calls[c]), aborts \in AccessorOutcomes(calls[c].path) :
          calls' = [calls EXCEPT ![c] =
             [Noted(calls[c], Callback(c, calls[c], n, aborts), n) EXCEPT
                !.phase = NodeStep(calls[c].phase, n)]]
    /\ delivered' = delivered
    /\ UNCHANGED <<endpoints, storage, keychain, api, metric, rawTx, signedTx, chain, info, last>>

NextNormal ==
    \/ CreateAPI
    \/ \E c \in Calls : Transact(c)
    \/ \E c \in Calls : DeployContract(c)
    \/ \E c \in Calls : NotifyNormal(c)
    \/ \E c \in Calls : ResumeWith(c, TRUE)

SpecNormal == Init /\ [][NextNormal]_vars

\* ------------------------------------------------- a node that fails
\* The node fails an accepted submission: it ends it with a non-inclusion
\* status (Dropped, Invalid, Usurped) or includes it in a block with a
\* dispatch error, and sends nothing for it afterwards.
TerminalStatuses == {"Dropped", "Invalid", "Usurped"}

FailureNotifications ==
    {Notification(st, FALSE, 0, "none", "none") : st \in TerminalStatuses}
    \cup {Notification("InBlock", FALSE, 1, de, "none") :
             de \in DispatchErrors \ {"none"}}

NotifyFailure(c) ==
    /\ calls[c].subscribed
    /\ calls[c].phase \in {"accepted", "ready", "broadcast"}
    /\ \E n \in FailureNotifications, aborts \in AccessorOutcomes(calls[c].path) :
          calls' = [calls EXCEPT ![c] =
             [Noted(calls[c], Callback(c, calls[c], n, aborts), n) EXCEPT
                !.phase = IF n.status \in TerminalStatuses
                          THEN n.status ELSE "failed"]]
    /\ UNCHANGED <<endpoints, storage, keychain, api, delivered, metric, rawTx, signedTx, chain,
                   info, last>>

NextFailing ==
    \/ CreateAPI
    \/ \E c \in Calls : Transact(c)
    \/ \E c \in Calls : DeployContract(c)
    \/ \E c \in Calls : NotifyNormal(c)
    \/ \E c \in Calls : NotifyFailure(c)
    \/ \E c \in Calls : Resume(c)

SpecFailing == Init /\ [][NextFailing]_vars

\* ---------------------------------------------------- concurrent calls
\* Two submissions in flight on the same connector instance, each with its
\* own subscription
ConcurrentRequests ==
    {[cred |-> "MNEMONIC_STRING", mnemonic |-> "//Alice", keychainId |-> "none",
      cfg |-> [to |-> "bob", value |-> "2", transferSubmittable |-> NoHex]],
     [cred |-> "NONE", mnemonic |-> "none", keychainId |-> "none",
      cfg |-> [to |-> "bob", value |-> "2",
               transferSubmittable |->
                  ExtrinsicToHex(SignWith(Transfer("bob", "2"), "//Alice"))]]}

ConcurrentTransact(c) ==
    /\ Free(c)
    /\ \E req \in ConcurrentRequests :
          calls' = [calls EXCEPT ![c] = transact(calls[c], req, TRUE, TRUE)]
    /\ UNCHANGED <<endpoints, storage, keychain, api, delivered, metric, rawTx, signedTx, chain,
                   info, last>>

ConcurrentDeploy(c) ==
    /\ Free(c)
    /\ calls' = [calls EXCEPT ![c] =
          deployContract(calls[c],
             [cred |-> "MNEMONIC_STRING", mnemonic |-> "//Alice",
              keychainId |-> "none", metadata |-> "flipper",
              params |-> NoParams], TRUE, TRUE)]
    /\ UNCHANGED <<endpoints, storage, keychain, api, delivered, metric, rawTx, signedTx, chain,
                   info, last>>

NextConcurrent ==
    \/ CreateAPI
    \/ \E c \in PairCalls : ConcurrentTransact(c)
    \/ \E c \in PairCalls : ConcurrentDeploy(c)
    \/ \E c \in PairCalls : Notify(c)
    \/ \E c \in PairCalls : Resume(c)

SpecConcurrent == InitPair /\ [][NextConcurrent]_vars

\* ------------------------------------------------------ keychain secrets
\* The owner of the keychain stores another secret under the entry key
KeychainSet ==
    /\ \E secret \in Mnemonics \ {keychain} : keychain' = secret
    /\ UNCHANGED <<endpoints, storage, api, calls, delivered, metric, rawTx, signedTx, chain,
                   info, last>>

\* Two transact calls against the same node behaviour: call 1 names the
\* registered keychain, call 2 carries the secret that keychain holds as a
\* mnemonic credential, both with the same transactionConfig.
SubmitTwins ==
    /\ \A c \in PairCalls : calls[c].pc = "idle"
    /\ \E to \in Addresses \cup {Absent}, encodeOk \in BOOLEAN,
          submitOk \in BOOLEAN :
          LET cfg == [to |-> to, value |-> "2", transferSubmittable |-> NoHex]
          IN calls' = [c \in PairCalls |->
                IF c = 1
                THEN transact(calls[c],
                       [cred |-> "CACTUS_KEYCHAIN_REF", mnemonic |-> "none",
                        keychainId |-> "kc1", cfg |-> cfg], encodeOk, submitOk)
                ELSE transact(calls[c],
                       [cred |-> "MNEMONIC_STRING", mnemonic |-> keychain,
                        keychainId |-> "none", cfg |-> cfg], encodeOk, submitOk)]
    /\ UNCHANGED <<endpoints, storage, keychain, api, delivered, metric, rawTx, signedTx, chain,
                   info, last>>

NextTwins ==
    \/ CreateAPI
    \/ KeychainSet
    \/ SubmitTwins
    \/ DeliverBoth
    \/ \E c \in PairCalls : Resume(c)

SpecTwins == InitPair /\ [][NextTwins]_vars

\* Two requests with a keychain reference, one after the other, while the
\* stored secret may change in between
KeychainRequests ==
    {[cred |-> "CACTUS_KEYCHAIN_REF", mnemonic |-> "none", keychainId |-> k,
      cfg |-> [to |-> "bob", value |-> "2", transferSubmittable |-> NoHex]] :
        k \in KeychainIds}

KeychainDeployRequests ==
    {[cred |-> "CACTUS_KEYCHAIN_REF", mnemonic |-> "none", keychainId |-> k,
      metadata |-> "flipper", params |-> NoParams] : k \in KeychainIds}

KeychainTransact(c) ==
    /\ calls[c].pc = "idle"
    /\ \E req \in KeychainRequests, submitOk \in BOOLEAN :
          calls' = [calls EXCEPT ![c] = transact(calls[c], req, TRUE, submitOk)]
    /\ UNCHANGED <<endpoints, storage, keychain, api, delivered, metric, rawTx, signedTx, chain,
                   info, last>>

KeychainDeploy(c) ==
    /\ calls[c].pc = "idle"
    /\ \E req \in KeychainDeployRequests, submitOk \in BOOLEAN :
          calls' = [calls EXCEPT
                      ![c] = deployContract(calls[c], req, TRUE, submitOk)]
    /\ UNCHANGED <<endpoints, storage, keychain, api, delivered, metric, rawTx, signedTx, chain,
                   info, last>>

NextReread ==
    \/ CreateAPI
    \/ KeychainSet
    \/ \E c \in PairCalls : KeychainTransact(c)
    \/ \E c \in PairCalls : KeychainDeploy(c)

SpecReread == InitPair /\ [][NextReread]_vars

\* Every operation that takes a secret, one call at a time: signTransaction,
\* and transact and deployContract with a mnemonic or with the keychain's
\* entry
NextMnemonic ==
    \/ CreateAPI
    \/ KeychainSet
    \/ RawTransaction
    \/ SignTransaction
    \/ Transact(1)
    \/ DeployContract(1)

SpecMnemonic == Init /\ [][NextMnemonic]_vars

\* ------------------------------------------------- read-only operations
\* The three operations that submit nothing, next to a transact call in
\* flight
NextOffline ==
    \/ CreateAPI
    \/ RawTransaction
    \/ SignTransaction
    \/ ObtainTransactionInformation
    \/ ConcurrentTransact(1)

SpecOffline == Init /\ [][NextOffline]_vars

\* ------------------------------------------------ connection lifecycle
\* shutdownConnectionToSubstrate(): with a connection it calls
\* this.api.disconnect() and leaves this.api holding the disconnected
\* object; with none it logs a warning. disconnectOk says whether
\* disconnect() returned normally.
ShutdownConnectionToSubstrate ==
    /\ \E disconnectOk \in BOOLEAN :
          IF api = "undefined"
          THEN /\ api' = api
               /\ last' = [name |-> "shutdownConnectionToSubstrate",
                           mnemonic |-> "none", error |-> NoError]
          ELSE IF disconnectOk
          THEN /\ api' = "disconnected"
               /\ last' = [name |-> "shutdownConnectionToSubstrate",
                           mnemonic |-> "none", error |-> NoError]
          ELSE /\ api' = api
               /\ last' = [name |-> "shutdownConnectionToSubstrate",
                           mnemonic |-> "none",
                           error |-> [wrap |-> "",
                                      msg |-> "Could not disconnect"]]
    /\ UNCHANGED <<endpoints, storage, keychain, calls, delivered, metric, rawTx, signedTx,
                   chain, info>>

NextLifecycle ==
    \/ CreateAPI
    \/ ShutdownConnectionToSubstrate
    \/ RawTransaction
    \/ SignTransaction
    \/ ObtainTransactionInformation
    \/ ConcurrentTransact(1)
    \/ ConcurrentDeploy(1)

SpecLifecycle == Init /\ [][NextLifecycle]_vars

\* ------------------------------------------------------ contract storage
\* Mutant: with no connection the call fails like the other operations
sendStorage_Throws(name, prev, tx, sendOk, incOk) ==
    LET n == [NoStorage EXCEPT !.name = name, !.count = prev.count + 1]
    IN
    IF api = "undefined"
    THEN [n EXCEPT !.error = [wrap |-> "", msg |-> "not connected"]]
    ELSE IF ~sendOk
    THEN [n EXCEPT !.sends = 1, !.error = [wrap |-> name, msg |-> "send failed"]]
    ELSE [n EXCEPT !.sends = 1, !.success = incOk, !.hash = TxHash(n.count)]

\* The common body of readStorage and writeStorage: the signature checks,
\* then `if (this.api) { hash = await send(); success = true; metric }`
\* inside try, then return {success, hash}. sendOk says whether send()
\* resolved, incOk whether addCurrentTransaction() returned normally.
sendStorage(name, prev, tx, sendOk, incOk) ==
    LET signature == toHex(tx.signature)
        n == [NoStorage EXCEPT !.name = name, !.count = prev.count + 1]
    IN
    IF Falsy(signature)
    THEN [n EXCEPT !.error = [wrap |-> "", msg |-> "Transaction is not signed"]]
    ELSE IF ~isHex(signature)
    THEN [n EXCEPT !.error = [wrap |-> "",
                              msg |-> "Transaction signature is not valid"]]
    ELSE IF api = "undefined" THEN n
    ELSE IF ~sendOk
    THEN [n EXCEPT !.sends = 1, !.error = [wrap |-> name, msg |-> "send failed"]]
    ELSE IF ~incOk
    THEN [n EXCEPT !.sends = 1,
                   !.error = [wrap |-> name, msg |-> "metrics failed"]]
    ELSE [n EXCEPT !.sends = 1, !.success = TRUE, !.hash = TxHash(n.count)]

\* req.transferSubmittable of a storage request: an extrinsic object,
\* signed or not
Submittables ==
    {Transfer("bob", "2"), SignWith(Transfer("bob", "2"), "//Alice")}

ReadStorage ==
    /\ storage.count < MaxSends
    /\ \E tx \in Submittables, sendOk \in BOOLEAN, incOk \in BOOLEAN :
          /\ storage' = sendStorage("readStorage", storage, tx, sendOk, incOk)
          /\ metric' = IF storage'.success THEN metric + 1 ELSE metric
    /\ UNCHANGED <<api, calls, delivered, rawTx, signedTx, chain, info, last,
                   keychain, endpoints>>

WriteStorage ==
    /\ storage.count < MaxSends
    /\ \E tx \in Submittables, sendOk \in BOOLEAN, incOk \in BOOLEAN :
          /\ storage' = sendStorage("writeStorage", storage, tx, sendOk, incOk)
          /\ metric' = IF storage'.success THEN metric + 1 ELSE metric
    /\ UNCHANGED <<api, calls, delivered, rawTx, signedTx, chain, info, last,
                   keychain, endpoints>>

NextStorage ==
    \/ CreateAPI
    \/ ReadStorage
    \/ WriteStorage
    \/ ConcurrentTransact(1)
    \/ \E c \in Calls : Notify(c)
    \/ \E c \in Calls : Resume(c)

SpecStorage == Init /\ [][NextStorage]_vars

\* ---------------------------------------------------------- web services
\* The endpoint objects getOrCreateWebServices constructs, in order
EndpointClasses ==
    <<"GetPrometheusExporterMetricsEndpointV1", "GetTransactionInfoEndpoint",
      "RunTransactionEndpoint", "GetRawTransactionEndpoint",
      "SignRawTransactionEndpoint", "DeployContractInkEndpoint">>

\* Mutant: the list is built on every call
getOrCreateWebServices_Rebuilds(e) ==
    [e EXCEPT !.isArray = TRUE, !.id = e.id + 1, !.list = EndpointClasses,
              !.created = e.created + Len(EndpointClasses),
              !.returned = e.id + 1, !.served = e.served + 1]

\* getOrCreateWebServices(): this.endpoints if it is an array, a new list of
\* six new endpoints otherwise
getOrCreateWebServices(e) ==
    IF e.isArray
    THEN [e EXCEPT !.returned = e.id, !.served = e.served + 1]
    ELSE [e EXCEPT !.isArray = TRUE, !.id = e.id + 1, !.list = EndpointClasses,
                   !.created = e.created + Len(EndpointClasses),
                   !.returned = e.id + 1, !.served = e.served + 1]

GetOrCreateWebServices ==
    /\ endpoints.served < MaxServiceCalls
    /\ endpoints' = getOrCreateWebServices(endpoints)
    /\ UNCHANGED <<api, calls, delivered, metric, rawTx, signedTx, chain, info,
                   last, keychain, storage>>

\* registerWebServices(app): getOrCreateWebServices, then registerExpress on
\* every endpoint of the list
RegisterWebServices ==
    /\ endpoints.served < MaxServiceCalls
    /\ LET webServices == getOrCreateWebServices(endpoints) IN
          endpoints' = [webServices EXCEPT
                          !.registered = webServices.registered
                                           + Len(webServices.list)]
    /\ UNCHANGED <<api, calls, delivered, metric, rawTx, signedTx, chain, info,
                   last, keychain, storage>>

\* ------------------------------------------------------------- endpoints
\* handleRequest of RunTransactionEndpoint and DeployContractInkEndpoint:
\* `await connector.transact(reqBody)` resp. `deployContract(reqBody)` inside
\* try, res.json(resBody) after it, an error response from the catch block
RunTransactionBodies ==
    {[cred |-> "MNEMONIC_STRING", mnemonic |-> "//Alice", keychainId |-> "none",
      cfg |-> [to |-> "bob", value |-> "2", transferSubmittable |-> NoHex]],
     [cred |-> "CACTUS_KEYCHAIN_REF", mnemonic |-> "none", keychainId |-> "kcX",
      cfg |-> [to |-> "bob", value |-> "2", transferSubmittable |-> NoHex]],
     [cred |-> "NONE", mnemonic |-> "none", keychainId |-> "none",
      cfg |-> [to |-> "bob", value |-> "2",
               transferSubmittable |->
                  ExtrinsicToHex(SignWith(Transfer("bob", "2"), "//Alice"))]]}

DeployContractBodies ==
    {[cred |-> "MNEMONIC_STRING", mnemonic |-> "//Alice", keychainId |-> "none",
      metadata |-> "flipper", params |-> NoParams],
     [cred |-> "NONE", mnemonic |-> "none", keychainId |-> "none",
      metadata |-> "flipper", params |-> NoParams]}

\* Mutant: a handler without the catch block
Respond_NoCatch(call) ==
    IF call.pc = "returned"
    THEN [call EXCEPT !.handler = "done",
            !.res = [sent |-> call.res.sent + 1, status |-> 200,
                     body |-> "result"]]
    ELSE [call EXCEPT !.handler = "done"]

\* The handler after its await: res.json(resBody) when the core returned,
\* res.status(500).json({message, error}) resp. handleRestEndpointException
\* when it threw
Respond(call) ==
    IF call.pc = "returned"
    THEN [call EXCEPT !.handler = "done",
            !.res = [sent |-> call.res.sent + 1, status |-> 200,
                     body |-> "result"]]
    ELSE [call EXCEPT !.handler = "done",
            !.res = [sent |-> call.res.sent + 1, status |-> 500,
                     body |-> "error"]]

RunTransactionEndpoint(c) ==
    /\ Free(c)
    /\ \E req \in RunTransactionBodies, submitOk \in BOOLEAN :
          calls' = [calls EXCEPT ![c] =
             [transact(calls[c], req, TRUE, submitOk) EXCEPT
                !.handler = "awaiting"]]
    /\ UNCHANGED <<endpoints, storage, keychain, api, delivered, metric, rawTx, signedTx, chain, info, last>>

DeployContractInkEndpoint(c) ==
    /\ Free(c)
    /\ \E req \in DeployContractBodies, submitOk \in BOOLEAN :
          calls' = [calls EXCEPT ![c] =
             [deployContract(calls[c], req, TRUE, submitOk) EXCEPT
                !.handler = "awaiting"]]
    /\ UNCHANGED <<endpoints, storage, keychain, api, delivered, metric, rawTx, signedTx, chain, info, last>>

\* The core call of the handler has completed: the handler responds
SendResponse(c) ==
    /\ calls[c].handler = "awaiting"
    /\ calls[c].pc \in {"returned", "threw"}
    /\ calls' = [calls EXCEPT ![c] = Respond(calls[c])]
    /\ UNCHANGED <<endpoints, storage, keychain, api, delivered, metric, rawTx, signedTx, chain, info, last>>

NextEndpoint ==
    \/ CreateAPI
    \/ \E c \in Calls : RunTransactionEndpoint(c)
    \/ \E c \in Calls : DeployContractInkEndpoint(c)
    \/ \E c \in Calls : Notify(c)
    \/ \E c \in Calls : Resume(c)
    \/ \E c \in Calls : SendResponse(c)

SpecEndpoint == Init /\ [][NextEndpoint]_vars

\* The API server asks for the endpoints and registers them, any number of
\* times and in any order, while the connector is in use
NextWeb ==
    \/ GetOrCreateWebServices
    \/ RegisterWebServices
    \/ CreateAPI
    \/ ConcurrentTransact(1)
    \/ ConcurrentDeploy(1)
    \/ \E c \in Calls : Notify(c)
    \/ \E c \in Calls : Resume(c)

SpecWeb == Init /\ [][NextWeb]_vars

\* ============================================================== properties
Finished(call) == call.pc \in {"returned", "threw"}
Settled(call) == call.promise \in {"resolved", "rejected"}
NoCollaboratorCall(call) ==
    call.derives = 0 /\ call.signs = 0 /\ call.submits = 0

\* C1: a transact call that returned has success=true and carries both a
\* txHash and a blockHash; success=true occurs only in a returned response;
\* a call that did not return that way ended with an error and no response.
C1_SuccessCarriesBothHashes ==
    \A c \in DOMAIN calls :
       calls[c].op = "transact" =>
          /\ calls[c].response.success =>
                /\ calls[c].pc = "returned"
                /\ calls[c].response.txHash # Undefined
                /\ calls[c].response.blockHash # Undefined
          /\ calls[c].pc = "returned" => calls[c].response.success
          /\ calls[c].pc = "threw" =>
                calls[c].error # NoError /\ calls[c].response = NoResponse

C1_Witness ==
    \E c \in DOMAIN calls :
       /\ calls[c].op = "transact"
       /\ calls[c].pc = "returned"
       /\ calls[c].response.success
       /\ calls[c].response.blockHash # Undefined

C3_PreSignedDeployAlwaysUnsupported ==
    \A c \in DOMAIN calls :
       (calls[c].op = "deployContract" /\ calls[c].cred = "NONE") =>
          /\ calls[c].pc = "threw"
          /\ calls[c].error =
                [wrap |-> "", msg |-> "cannot deploy contract with pre-signed TX"]
          /\ calls[c].lookups = 0 /\ calls[c].parses = 0
          /\ NoCollaboratorCall(calls[c])

\* C3 (amended): deployContract with the pre-signed credential always fails
\* and looks up, parses, signs and submits nothing; it fails with the
\* unsupported-credential error whenever the chain connection is established,
\* whatever the other request fields, and with the not-connected error when
\* there is no connection.
C3_PreSignedDeployRejected ==
    /\ [](\A c \in DOMAIN calls :
            (calls[c].op = "deployContract" /\ calls[c].cred = "NONE") =>
               /\ calls[c].pc = "threw"
               /\ calls[c].error.wrap = ""
               /\ calls[c].lookups = 0 /\ calls[c].parses = 0
               /\ NoCollaboratorCall(calls[c]))
    /\ [][\A c \in DOMAIN calls :
            (calls[c].pc = "idle" /\ calls'[c].op = "deployContract"
               /\ calls'[c].cred = "NONE") =>
               calls'[c].error.msg =
                  IF api = "undefined" THEN "not connected"
                  ELSE "cannot deploy contract with pre-signed TX"]_vars

C3_Witness ==
    \E c \in DOMAIN calls :
       /\ calls[c].op = "deployContract" /\ calls[c].cred = "NONE"
       /\ calls[c].params # NoParams
       /\ calls[c].error.msg = "cannot deploy contract with pre-signed TX"

\* C4: a pre-signed transfer whose rehydrated transaction carries no signature
\* fails with the unsigned-transaction error and is never submitted.
C4_UnsignedNeverSubmitted ==
    \A c \in DOMAIN calls :
       calls[c].unsignedTx =>
          /\ calls[c].pc = "threw"
          /\ calls[c].error.msg = "Transaction is not signed"
          /\ calls[c].submits = 0

UnknownKeychain(call) ==
    /\ call.cred = "CACTUS_KEYCHAIN_REF"
    /\ call.keychainId \notin RegisteredKeychains

\* C5 (as stated): a transact or deployContract call that names an
\* unregistered keychain fails with the credential-not-found error and makes
\* no call to the keyring, the signer or the node.
C5_UnknownKeychainNotFound ==
    \A c \in DOMAIN calls :
       UnknownKeychain(calls[c]) =>
          /\ calls[c].pc = "threw"
          /\ calls[c].error.msg = "keychain not found"
          /\ NoCollaboratorCall(calls[c])

\* C5 (amended): such a call always fails and makes no call to the keyring,
\* the signer or the node; transact fails with the credential-not-found
\* error, and so does deployContract whenever the chain connection is
\* established, while deployContract with no connection fails with the
\* not-connected error before it looks the keychain up.
C5_UnknownKeychainRejected ==
    /\ [](\A c \in DOMAIN calls :
            UnknownKeychain(calls[c]) =>
               /\ calls[c].pc = "threw"
               /\ calls[c].error.wrap = ""
               /\ NoCollaboratorCall(calls[c]))
    /\ [][\A c \in DOMAIN calls :
            (calls[c].pc = "idle" /\ UnknownKeychain(calls'[c])) =>
               calls'[c].error.msg =
                  IF calls'[c].op = "deployContract" /\ api = "undefined"
                  THEN "not connected"
                  ELSE "keychain not found"]_vars

C5_Witness ==
    \E c \in DOMAIN calls :
       /\ UnknownKeychain(calls[c])
       /\ calls[c].op = "transact"
       /\ calls[c].lookups = 1
       /\ calls[c].error.msg = "keychain not found"

IsEraPeriod(p) == \E k \in 2..16 : p = 2 ^ k

\* C7 (as stated): the era's period equals the requested validity window,
\* 50 when the window is omitted.
C7_PeriodEqualsWindow ==
    info.queried =>
       info.period = IF info.window.present THEN info.window.value ELSE 50

\* C7 (amended): the era's period is the requested window (50 when it is
\* omitted or zero) rounded up to a power of two and clamped to [4, 65536],
\* counted from the queried current block (the phase is that block's number
\* modulo the period); nonce and blockHash are those of the chain state
\* whatever the window, so two queries of one chain state differ in the era
\* only.
C7_EraFromWindow ==
    /\ [](info.queried =>
            LET w == IF info.window.present /\ info.window.value # 0
                     THEN info.window.value ELSE 50
            IN /\ IsEraPeriod(info.period)
               /\ info.period >= w \/ info.period = 65536
               /\ info.period < 2 * w \/ info.period = 4
               /\ info.phase = info.number % info.period)
    /\ [][(info'.queried /\ info' # info) =>
            /\ info'.nonce = chain.nonce
            /\ info'.blockHash = BlockHash(chain.number)
            /\ (info.queried /\ info.number = chain.number) =>
                  /\ info'.nonce = info.nonce
                  /\ info'.blockHash = info.blockHash]_vars

C7_Witness ==
    /\ info.queried
    /\ info.window = [present |-> TRUE, value |-> 50]
    /\ info.period = 64
    /\ info.number > 0

\* C8: a deployment that reached the instantiate call was built with the
\* request's arguments in request order when the list is non-empty and with
\* the single no-argument marker, never with an empty list, when the list is
\* empty or absent; when the node's first inclusion report carries no
\* dispatch error the deployment succeeds, and a deployment that returned
\* has success=true and the contract's address.
C8_ConstructorArguments ==
    \A c \in DOMAIN calls :
       (calls[c].op = "deployContract" /\ calls[c].ctor # "none") =>
          /\ Len(calls[c].args) >= 1
          /\ (calls[c].params.present /\ Len(calls[c].params.list) > 0) =>
                calls[c].args = calls[c].params.list
          /\ (~calls[c].params.present \/ Len(calls[c].params.list) = 0) =>
                calls[c].args = <<"undefined">>
          /\ (calls[c].first # NoNotification
                /\ calls[c].first.dispatchError = "none") =>
                /\ calls[c].promise = "resolved"
                /\ calls[c].pc # "threw"
          /\ calls[c].pc = "returned" =>
                /\ calls[c].response.success
                /\ calls[c].response.address = calls[c].first.contract

C8_Witness ==
    \E c \in DOMAIN calls :
       /\ calls[c].op = "deployContract"
       /\ calls[c].params = [present |-> TRUE, list |-> <<>>]
       /\ calls[c].args = <<"undefined">>
       /\ calls[c].pc = "returned"
       /\ calls[c].response.success

\* C9: the promise a submission awaits is settled once: after it has settled
\* no notification changes its state, its value or its reason, and after
\* the call has finished nothing changes what the caller got; the promise
\* is settled as soon as the first inclusion report has been delivered, so
\* the call does not wait for a later one.
C9_OutcomeWrittenOnce ==
    /\ [](\A c \in DOMAIN calls :
            calls[c].first # NoNotification => Settled(calls[c]))
    /\ [][\A c \in DOMAIN calls :
            /\ Settled(calls[c]) =>
                  /\ calls'[c].promise = calls[c].promise
                  /\ calls'[c].txResult = calls[c].txResult
                  /\ calls'[c].reason = calls[c].reason
            /\ Finished(calls[c]) =>
                  /\ calls'[c].pc = calls[c].pc
                  /\ calls'[c].response = calls[c].response
                  /\ calls'[c].error = calls[c].error]_vars

C9_Witness ==
    \E c \in DOMAIN calls :
       /\ calls[c].late
       /\ calls[c].promise = "resolved"
       /\ calls[c].pc = "returned"

\* C10: a submission whose submit primitive failed does not leave the call
\* waiting on a promise nothing will settle: the promise is rejected, so the
\* call completes with an error.
C10_FailedSubmitCompletes ==
    \A c \in DOMAIN calls :
       (calls[c].pc = "awaiting" /\ ~calls[c].subscribed) =>
          calls[c].promise = "rejected"

\* C11: while no connection has been established every operation fails
\* with the not-connected error as the other operations throw it, and
\* obtainTransactionInformation has queried nothing.
C11_NotConnectedError ==
    (api = "undefined" /\ last.name # "none") =>
       /\ last.error = [wrap |-> "", msg |-> "not connected"]
       /\ ~info.queried

\* C12 (as stated): a transact or deployContract request whose credential
\* tag is none of the three variants fails with the unrecognized-credential
\* error, without keychain lookup, signing or submission.
C12_UnrecognizedTag ==
    \A c \in DOMAIN calls :
       calls[c].cred = "OTHER" =>
          /\ calls[c].pc = "threw"
          /\ calls[c].error = [wrap |-> "", msg |-> "unrecognized credential type"]
          /\ calls[c].lookups = 0
          /\ NoCollaboratorCall(calls[c])

\* C12 (amended): such a request always fails without keychain lookup,
\* signing or submission; transact fails with the unrecognized-credential
\* error, and so does deployContract whenever the chain connection is
\* established, while deployContract with no connection fails with the
\* not-connected error before it looks at the credential.
C12_UnrecognizedTagRejected ==
    /\ [](\A c \in DOMAIN calls :
            calls[c].cred = "OTHER" =>
               /\ calls[c].pc = "threw"
               /\ calls[c].error.wrap = ""
               /\ calls[c].lookups = 0 /\ calls[c].parses = 0
               /\ NoCollaboratorCall(calls[c]))
    /\ [][\A c \in DOMAIN calls :
            (calls[c].pc = "idle" /\ calls'[c].cred = "OTHER") =>
               calls'[c].error.msg =
                  IF calls'[c].op = "deployContract" /\ api = "undefined"
                  THEN "not connected"
                  ELSE "unrecognized credential type"]_vars

C12_Witness ==
    \E c \in DOMAIN calls :
       /\ calls[c].cred = "OTHER"
       /\ calls[c].op = "transact"
       /\ calls[c].error.msg = "unrecognized credential type"

\* C13: transact with the pre-signed credential and no payload fails with
\* the caller error and sends nothing; with the mnemonic or the keychain
\* credential a submission is made only for a request that carries both to
\* and value.
C13_RequestCarriesWhatItNeeds ==
    \A c \in DOMAIN calls :
       calls[c].op = "transact" =>
          /\ (calls[c].cred = "NONE" /\ calls[c].path = "none") =>
                /\ calls[c].pc = "threw"
                /\ calls[c].submits = 0
          /\ (calls[c].cred \in {"MNEMONIC_STRING", "CACTUS_KEYCHAIN_REF"}
                /\ calls[c].submits > 0) => calls[c].pair

C15_FailureCarriesDecodedError ==
    \A c \in DOMAIN calls :
       (calls[c].op = "deployContract"
          /\ calls[c].first.status \in Included
          /\ calls[c].first.dispatchError # "none") =>
          /\ calls[c].pc # "returned"
          /\ calls[c].pc = "threw" =>
                calls[c].error.msg = DecodedError(calls[c].first.dispatchError)

\* C16: an endpoint request whose core call has completed gets exactly one
\* response, the result with status 200 when the core returned and the
\* error response when it threw; nothing is sent before the handler has
\* responded, and only the handler's responding step writes to the
\* response: no step of the core does.
C16_OneResponsePerRequest ==
    /\ [](\A c \in DOMAIN calls :
            /\ calls[c].handler = "done" =>
                  /\ calls[c].res.sent = 1
                  /\ calls[c].pc = "returned" =>
                        calls[c].res.status = 200 /\ calls[c].res.body = "result"
                  /\ calls[c].pc = "threw" =>
                        calls[c].res.status = 500 /\ calls[c].res.body = "error"
            /\ calls[c].handler # "done" => calls[c].res = NoRes)
    /\ [][\A c \in DOMAIN calls :
            calls'[c].res # calls[c].res =>
               /\ calls[c].handler = "awaiting" /\ calls'[c].handler = "done"
               /\ Finished(calls[c])
               /\ calls'[c].pc = calls[c].pc
               /\ calls'[c].response = calls[c].response]_vars

C16_Witness ==
    \E c \in DOMAIN calls :
       /\ calls[c].handler = "done"
       /\ calls[c].pc = "threw"
       /\ calls[c].path = "signed"
       /\ calls[c].res = [sent |-> 1, status |-> 500, body |-> "error"]

\* C17: a submission whose awaited promise resolved (the node included it)
\* never ends as a failed call, whether the metrics increment fails or not.
C17_MetricsNeverFailTheCall ==
    \A c \in DOMAIN calls :
       calls[c].promise = "resolved" => calls[c].pc # "threw"

C19_FirstInBlockDecides ==
    \A c \in DOMAIN calls :
       (calls[c].path = "keypair" /\ calls[c].subscribed) =>
          /\ calls[c].first = NoNotification => calls[c].promise = "pending"
          /\ calls[c].first # NoNotification =>
                /\ calls[c].first.status = "InBlock"
                /\ calls[c].promise = "resolved" <=> calls[c].first.success
                /\ calls[c].promise = "rejected" <=> ~calls[c].first.success
          /\ calls[c].pc = "returned" <=>
                (calls[c].response.success /\ calls[c].first.success)
          /\ calls[c].pc = "returned" =>
                /\ calls[c].response.txHash = TxHash(c)
                /\ calls[c].response.blockHash = BlockHash(calls[c].first.block)
          /\ calls[c].pc = "threw" => ~calls[c].first.success

C19_Witness ==
    \E c \in DOMAIN calls :
       /\ calls[c].path = "keypair"
       /\ calls[c].pc = "returned"
       /\ calls[c].late
       /\ calls[c].response.blockHash = BlockHash(2)

\* C20: on the keypair path, when the first in-block notification has no
\* system.ExtrinsicSuccess the call fails, and the error the caller gets is
\* the extrinsic-failure report with the emitted events.
C20_FailureReportsEvents ==
    \A c \in DOMAIN calls :
       (calls[c].path = "keypair" /\ calls[c].first # NoNotification
          /\ ~calls[c].first.success) =>
          /\ calls[c].pc # "returned"
          /\ calls[c].pc = "threw" => calls[c].error.msg = TransactionFailed

C22_NotAcceptedFailsWithStatus ==
    \A c \in DOMAIN calls :
       (calls[c].op = "transact" /\ calls[c].phase \in TerminalStatuses) =>
          /\ calls[c].promise = "rejected"
          /\ calls[c].pc = "threw" =>
                calls[c].error.msg = NotSubmitted(calls[c].phase)

\* C23: a transfer whose notification carries a dispatch error is rejected,
\* and the call fails with the decoded dispatch error.
C23_DispatchErrorFailsTransfer ==
    \A c \in DOMAIN calls :
       (calls[c].op = "transact" /\ calls[c].first.dispatchError # "none") =>
          /\ calls[c].promise = "rejected"
          /\ calls[c].pc = "threw" =>
                calls[c].error.msg = DecodedError(calls[c].first.dispatchError)

\* C24: a transact call that names the registered keychain and a transact
\* call that carries the keychain's secret as a mnemonic, with the same
\* transactionConfig and the same node behaviour, derive from the same
\* mnemonic, make the same calls to keyring, signer and node, hold the same
\* promise state, result and reason, and finish the same way with the same
\* error.
C24_KeychainLikeMnemonic ==
    LET k == calls[1]
        m == calls[2]
    IN (k.cred = "CACTUS_KEYCHAIN_REF" /\ m.cred = "MNEMONIC_STRING") =>
          /\ k.mnemonic = m.mnemonic
          /\ k.derives = m.derives /\ k.signs = m.signs
          /\ k.submits = m.submits /\ k.subscribed = m.subscribed
          /\ k.promise = m.promise /\ k.reason = m.reason
          /\ k.txResult.success = m.txResult.success
          /\ k.txResult.blockhash = m.txResult.blockhash
          /\ k.pc = m.pc =>
                /\ k.error = m.error
                /\ k.response.success = m.response.success
                /\ k.response.blockHash = m.response.blockHash
          /\ (Finished(k) /\ Finished(m)) => k.pc = m.pc

C24_Witness ==
    /\ calls[1].cred = "CACTUS_KEYCHAIN_REF"
    /\ calls[1].mnemonic = "//Alice"
    /\ calls[1].pc = "returned"
    /\ calls[2].pc = "returned"
    /\ calls[2].response.success

\* C25: no call submits more than once: a transact call invokes either the
\* sign-and-send primitive (keypair path, one signature) or the send
\* primitive (pre-signed path, no signature), a deployContract call the
\* sign-and-send primitive, each at most once, and once a call has left its
\* entry point no notification, rejection or failure makes it submit again.
C25_SubmitsAtMostOnce ==
    /\ [](\A c \in Calls :
            /\ calls[c].submits <= 1
            /\ calls[c].signs <= 1
            /\ calls[c].submits = 1 =>
                  /\ calls[c].op = "transact" =>
                        calls[c].path \in {"keypair", "signed"}
                  /\ calls[c].op = "deployContract" =>
                        calls[c].path = "deploy"
                  /\ calls[c].signs = IF calls[c].path = "signed" THEN 0 ELSE 1)
    /\ [][\A c \in Calls :
            calls[c].pc # "idle" =>
                /\ calls'[c].submits = calls[c].submits
                /\ calls'[c].signs = calls[c].signs]_vars

C25_Witness ==
    \E c \in Calls :
        /\ calls[c].pc = "threw"
        /\ calls[c].promise = "rejected"
        /\ calls[c].submits = 1
        /\ delivered >= 2

\* C26: with two submissions in flight, a step of one call (its entry, a
\* notification of its subscription, its continuation) leaves the other
\* call's record untouched, and what each call resolves with comes from its
\* own subscription: its own transaction hash, and the block hash, success
\* flag or contract address of the first inclusion notification that its own
\* subscription delivered.
C26_CallsAreIndependent ==
    /\ [][\A c, d \in PairCalls :
            (c # d /\ calls'[c] # calls[c]) => calls'[d] = calls[d]]_vars
    /\ [](\A c \in PairCalls :
            /\ (calls[c].subscribed /\ calls[c].first = NoNotification
                   /\ calls[c].path # "signed") => calls[c].promise = "pending"
            /\ calls[c].promise = "resolved" =>
                  /\ calls[c].first # NoNotification
                  /\ calls[c].path = "keypair" =>
                        /\ calls[c].first.success
                        /\ calls[c].txResult.transactionHash = TxHash(c)
                        /\ calls[c].txResult.blockhash =
                              BlockHash(calls[c].first.block)
                  /\ calls[c].path = "signed" =>
                        calls[c].txResult.blockhash =
                           BlockHash(calls[c].first.block)
                  /\ calls[c].path = "deploy" =>
                        calls[c].txResult.address = calls[c].first.contract
            /\ (calls[c].promise = "rejected" /\ calls[c].path # "signed") =>
                  /\ calls[c].first # NoNotification
                  /\ calls[c].path = "keypair" => ~calls[c].first.success
                  /\ calls[c].path = "deploy" =>
                        calls[c].first.dispatchError # "none")

C26_Witness ==
    /\ calls[1].path = calls[2].path
    /\ calls[1].pc = "threw"
    /\ calls[1].promise = "rejected"
    /\ calls[2].pc = "returned"
    /\ calls[2].response.success

\* C27: a failure raised by the chain library while rehydrating the
\* serialized transaction, building the transfer or instantiate call,
\* parsing the contract metadata or deriving the signer reaches the caller
\* inside an error that carries the tag of the operation it occurred in.
AdapterFailures ==
    {"api.tx failed", "transfer failed", "instantiate call failed",
     "new Abi failed", "createFromUri failed"}

C27_AdapterErrorsWrapped ==
    \A c \in Calls :
        (calls[c].pc = "threw" /\ calls[c].error.msg \in AdapterFailures) =>
            calls[c].error.wrap \in
                {"transactMnemonicString", "transactSigned", "deployContract"}

\* C28 as stated: every call with a keychain-reference credential performs
\* exactly one plugin lookup and exactly one entry read.
C28_OneLookupOneRead ==
    \A c \in PairCalls :
        (calls[c].cred = "CACTUS_KEYCHAIN_REF" /\ calls[c].pc # "idle") =>
            calls[c].lookups = 1 /\ calls[c].reads = 1

\* C28 amended: a call with a keychain-reference credential never looks the
\* plugin up or reads the entry more than once; it reads the entry exactly
\* when its one lookup found a registered keychain; it makes no lookup only
\* when it is a deployContract call that failed before resolving the
\* credential; and the mnemonic a call derives its keypair from is the
\* secret stored at the time of that call, so a secret changed between two
\* requests is the one the second request uses.
C28_KeychainReadEachCall ==
    /\ [](\A c \in PairCalls :
            calls[c].cred = "CACTUS_KEYCHAIN_REF" =>
                /\ calls[c].lookups <= 1
                /\ calls[c].reads <= 1
                /\ calls[c].reads = 1 <=>
                      (calls[c].lookups = 1
                         /\ calls[c].keychainId \in RegisteredKeychains)
                /\ (calls[c].lookups = 0 /\ calls[c].pc # "idle") =>
                      /\ calls[c].op = "deployContract"
                      /\ calls[c].pc = "threw"
                      /\ calls[c].derives = 0
                /\ calls[c].derives = 1 => calls[c].reads = 1)
    /\ [][\A c \in PairCalls :
            (calls[c].pc = "idle" /\ calls'[c].cred = "CACTUS_KEYCHAIN_REF"
               /\ calls'[c].derives = 1) =>
                calls'[c].mnemonic = keychain]_vars

C28_Witness ==
    /\ \A c \in PairCalls :
          /\ calls[c].cred = "CACTUS_KEYCHAIN_REF"
          /\ calls[c].lookups = 1 /\ calls[c].reads = 1
          /\ calls[c].derives = 1
    /\ calls[1].mnemonic = KeychainEntry
    /\ calls[2].mnemonic # KeychainEntry
    /\ calls[2].mnemonic = keychain

\* C29: a transact or deployContract call that reaches key derivation with
\* a mnemonic no keypair can be derived from ("bad") fails with an error and makes
\* no signature and no submission; signTransaction with such a mnemonic
\* fails with an error and produces no signed transaction.
C29_UnderivableMnemonicFails ==
    /\ [](\A c \in Calls :
            calls[c].mnemonic = "bad" =>
                /\ calls[c].pc = "threw"
                /\ calls[c].error # NoError
                /\ calls[c].signs = 0
                /\ calls[c].submits = 0
                /\ ~calls[c].subscribed)
    /\ []((last.name = "signTransaction" /\ last.mnemonic = "bad") =>
            last.error # NoError)
    /\ [][(last'.name = "signTransaction" /\ last'.mnemonic = "bad") =>
            signedTx' = signedTx]_vars

C29_Witness ==
    /\ \E c \in Calls :
          /\ calls[c].op = "deployContract"
          /\ calls[c].cred = "CACTUS_KEYCHAIN_REF"
          /\ calls[c].mnemonic = "bad"
          /\ calls[c].derives = 1
          /\ calls[c].error.msg = "createFromUri failed"
    /\ last.name = "signTransaction"
    /\ last.mnemonic = "bad"
    /\ last.error.msg = "createFromUri failed"
    /\ signedTx # NoHex

\* C30: a deployContract call that builds an instantiate call builds it
\* with the constructor the parsed metadata declares first, whether the
\* metadata declares two or three constructors and whether the request
\* carries arguments, no arguments or an empty list; with metadata that
\* declares none the call fails and nothing is submitted.
C30_FirstConstructorOnly ==
    \A c \in Calls :
        calls[c].op = "deployContract" =>
            /\ calls[c].ctor # "none" =>
                  /\ Len(Constructors(calls[c].metadata)) > 0
                  /\ calls[c].ctor = Constructors(calls[c].metadata)[1]
            /\ calls[c].submits = 1 => calls[c].ctor # "none"
            /\ (calls[c].metadata = "empty" /\ calls[c].pc # "idle") =>
                  calls[c].pc = "threw" /\ calls[c].submits = 0

C30_Witness ==
    \E c \in Calls :
        /\ calls[c].op = "deployContract"
        /\ calls[c].metadata = "incrementer"
        /\ calls[c].params.present
        /\ Len(calls[c].params.list) = 2
        /\ calls[c].ctor = "default"
        /\ calls[c].pc = "returned"

\* C31: a step of rawTransaction, signTransaction or
\* obtainTransactionInformation (a step that changes what one of them
\* returned) leaves every call record as it was, so nothing is submitted,
\* signed for submission or subscribed to, and leaves the connection, the
\* metric, the keychain and the chain as they were; rawTransaction leaves
\* the signed transaction alone and what it returns carries no signature.
C31_NoSubmissionSideEffect ==
    /\ [][<<last, rawTx, signedTx, info>>' # <<last, rawTx, signedTx, info>> =>
            /\ calls' = calls
            /\ api' = api
            /\ metric' = metric
            /\ delivered' = delivered
            /\ keychain' = keychain
            /\ chain' = chain
            /\ endpoints' = endpoints
            /\ storage' = storage]_vars
    /\ [][rawTx' # rawTx =>
            /\ signedTx' = signedTx
            /\ ~Deserialize(rawTx').signed]_vars
    /\ [](rawTx # NoHex => ~Deserialize(rawTx).signed)

C31_Witness ==
    /\ calls[1].pc = "awaiting"
    /\ calls[1].submits = 1
    /\ metric = 0
    /\ last.name = "obtainTransactionInformation"
    /\ last.error = NoError
    /\ info.queried
    /\ rawTx # NoHex
    /\ signedTx # NoHex

C33_NotConnectedAfterShutdown ==
    /\ [][api = "disconnected" =>
            /\ (last' # last /\ last'.name # "shutdownConnectionToSubstrate") =>
                  last'.error.msg = "not connected"
            /\ \A c \in Calls :
                  (calls[c].pc = "idle" /\ calls'[c].pc # "idle") =>
                      /\ calls'[c].pc = "threw"
                      /\ calls'[c].error.msg = "not connected"]_vars
    /\ [][(api = "undefined" /\ last'.name = "shutdownConnectionToSubstrate") =>
            last'.error = NoError]_vars

\* C34: a deployContract call made with no chain connection fails with the
\* not-connected error whatever its credential variant (mnemonic, keychain
\* reference, pre-signed, unknown), before any keychain lookup, metadata
\* parsing or key derivation; made with a connection and the pre-signed
\* credential it fails with the unsupported-credential error, again before
\* any lookup, parsing or derivation.
C34_ConnectionBeforeCredential ==
    [][\A c \in Calls :
         (calls[c].pc = "idle" /\ calls'[c].op = "deployContract") =>
            /\ api = "undefined" =>
                  /\ calls'[c].pc = "threw"
                  /\ calls'[c].error = [wrap |-> "", msg |-> "not connected"]
                  /\ calls'[c].lookups = 0 /\ calls'[c].reads = 0
                  /\ calls'[c].parses = 0 /\ calls'[c].derives = 0
            /\ (api # "undefined" /\ calls'[c].cred = "NONE") =>
                  /\ calls'[c].pc = "threw"
                  /\ calls'[c].error.msg =
                        "cannot deploy contract with pre-signed TX"
                  /\ calls'[c].lookups = 0 /\ calls'[c].reads = 0
                  /\ calls'[c].parses = 0 /\ calls'[c].derives = 0]_vars

C34_Witness ==
    \E c \in Calls :
        /\ calls[c].op = "deployContract"
        /\ calls[c].cred = "CACTUS_KEYCHAIN_REF"
        /\ calls[c].keychainId = "kcX"
        /\ calls[c].error.msg = "not connected"
        /\ calls[c].lookups = 0

\* C35: the first call of getOrCreateWebServices (directly or through
\* registerWebServices) builds a list of exactly six endpoints, and every
\* later call returns that same list object: no further endpoint is ever
\* constructed and the list never changes.
C35_EndpointsCreatedOnce ==
    /\ [](endpoints.served = 0 =>
             (~endpoints.isArray /\ endpoints.created = 0))
    /\ [](endpoints.served > 0 =>
             /\ endpoints.isArray
             /\ Len(endpoints.list) = 6
             /\ endpoints.created = 6
             /\ endpoints.id = 1
             /\ endpoints.returned = 1)
    /\ [][endpoints.isArray =>
            /\ endpoints'.list = endpoints.list
            /\ endpoints'.id = endpoints.id
            /\ endpoints'.created = endpoints.created
            /\ endpoints'.returned = endpoints.id]_vars

C35_Witness ==
    /\ endpoints.served = MaxServiceCalls
    /\ endpoints.registered = 12
    /\ endpoints.created = 6
    /\ \E c \in Calls : calls[c].pc = "returned"

\* C36: the transaction metric equals the number of transact and
\* deployContract calls that have returned success=true: each such call
\* incremented it once and a call that failed did not increment it.
C36_MetricCountsSuccesses ==
    metric = Cardinality({c \in Calls :
                            calls[c].pc = "returned" /\ calls[c].response.success})

\* C37: a readStorage or writeStorage call returns success=true only with
\* the hash its send returned and after exactly one send; it never sends
\* twice; and with no chain connection it sends nothing and returns
\* success=false with no hash and no error.
C37_StorageSendsOnce ==
    /\ [](storage.name # "none" =>
            /\ storage.sends <= 1
            /\ storage.success =>
                  /\ storage.hash = TxHash(storage.count)
                  /\ storage.sends = 1
                  /\ storage.error = NoError
            /\ ~storage.success => storage.hash = Undefined
            /\ (~storage.success /\ storage.error = NoError) =>
                  storage.sends = 0)
    /\ [][(api = "undefined" /\ storage'.count # storage.count) =>
            /\ ~storage'.success
            /\ storage'.hash = Undefined
            /\ storage'.sends = 0
            /\ storage'.error = NoError
            /\ metric' = metric]_vars

C37_Witness ==
    /\ storage.name = "writeStorage"
    /\ storage.success
    /\ storage.sends = 1
    /\ storage.count = 2
    /\ metric = 1

====
